---- MODULE Spec2Model ----
(***************************************************************************)
(* MediaScribe: the concurrent per-segment visual pipeline                 *)
(* (src/src/advanced_processor.py) and the near-duplicate reducer          *)
(* (src/src/visual_processor.py).                                          *)
(*                                                                         *)
(* Conventions.  Python lists are sequences (1-based), so the code's index *)
(* i is position i+1 here and the segment number i+1 passed to the         *)
(* pipeline is the position itself.  An optional value is a sequence of    *)
(* length at most one: <<>> is Python's None, <<v>> is the value v.        *)
(* A result without the 'error' key has error = FALSE.  Similarity         *)
(* thresholds are integer hundredths (85 is 0.85).  A time range string    *)
(* "{start:.1f}s - {end:.1f}s" is the pair <<start, end>>.                 *)
(***************************************************************************)
EXTENDS Integers, Sequences, FiniteSets, TLC

\* ---------------------------------------------------------------- bounds
MaxSegs == 4          \* longest transcript drawn
MaxLen == 3           \* longest embedding list drawn for the reducer
MaxDuration == 125    \* longest segment duration drawn, in seconds
MaxPaths == 7         \* longest kept list drawn for key-image selection
MaxRatios == 3        \* longest list of ratio names drawn for cropping
MaxPdfSegs == 3       \* longest batch drawn for the document
MaxOriginal == 20     \* longest list of original transcript segments drawn

\* ------------------------------------------------------------- constants
max_workers == 3                   \* ThreadPoolExecutor(max_workers=3)
max_images == 3                    \* _select_key_images_for_segment(max_images=3)
DefaultSimilarityThreshold == 95   \* CONFIG['image']['similarity_threshold']
SegmentSimilarityThreshold == 85   \* segment_config['similarity_threshold']
max_frames_per_segment == 50       \* CONFIG['image']['max_frames_per_segment']

None == <<>>
Some(v) == <<v>>

Min(a, b) == IF a < b THEN a ELSE b
Max(a, b) == IF a > b THEN a ELSE b

Durations == {0, 20}
BackendStatus == {"ok", "500"}
Vectors == {<<1, 0>>, <<2, 0>>, <<0, 1>>, <<1, 1>>, <<3, 3>>, <<6, 6>>,
            <<2, 1>>, <<-1, 1>>}
Thresholds == {1, 50, 85, 95, 100}
VideoFps == {1, 2}
TotalFrames == {1, 3, 7, 20, 30, 60}
StartTimes == {0, 2, 10, 30}
RequestedDurations == {None, <<0>>, <<1>>, <<5>>, <<20>>, <<60>>}
BadFrameSets == SUBSET {0, 1, 4}
RatioNames == {"4:3", "3:2", "16:9", "1:1", "2:3", "3:4", "5:5", "21:9"}
ImageSizes == {<<640, 480>>, <<9, 16>>, <<10, 10>>}
KeyImageLists == {<<>>, <<1>>, <<1, 2>>}
FileStatus == {"ok", "missing", "load_fails"}

VARIABLES
  segments,        \* summary_result['segments']
  backend,         \* what the embedding backend answers for each segment's batch
  pc,              \* position of process_video_with_concurrent_visual
  next_i,          \* next position the submit loop will dispatch
  queue,           \* executor work queue: submitted, not yet started
  running,         \* pipeline invocations executing on a worker thread
  outcome,         \* per future: None while not finished, else Some(outcome)
  yielded,         \* futures as_completed has already yielded
  visual_results,  \* None before line 101, else Some(list of slots)
  writes,          \* per slot: the futures whose result was written there
  enhanced_result, \* the returned dict (None until return)
  embeddings,      \* reducer input: list of <<path, vector>>
  threshold,       \* reducer threshold (hundredths)
  kept,            \* reducer output for embeddings
  kept_again,      \* reducer output for the kept items
  rpc,             \* position of the reducer harness
  call,            \* a single call under study: function name and arguments
  ret              \* its return value (None until it returned)

orchVars == <<segments, backend, pc, next_i, queue, running, outcome, yielded,
              visual_results, writes, enhanced_result>>
redVars == <<embeddings, threshold, kept, kept_again, rpc>>
callVars == <<call, ret>>
vars == <<segments, backend, pc, next_i, queue, running, outcome, yielded,
          visual_results, writes, enhanced_result,
          embeddings, threshold, kept, kept_again, rpc, call, ret>>

N == Len(segments)

\* ------------------------------------------------ visual_processor.py
\* Embeddings are pairs of small integers; the zero vector is not drawn.
Dot(a, b) == a[1] * b[1] + a[2] * b[2]

\* e1 and e2 point the same way: their cosine is exactly 1
Parallel(e1, e2) ==
  /\ Dot(e1, e2) > 0
  /\ Dot(e1, e2) * Dot(e1, e2) = Dot(e1, e1) * Dot(e2, e2)

\* calculate_similarity works in IEEE-754 doubles: sklearn's
\* cosine_similarity divides each vector by its norm and takes the dot
\* product.  For parallel vectors the result is 1.0 up to one rounding step,
\* and which way it falls depends on the vectors: for [3,3] and [6,6] the
\* component 3/sqrt(18) rounds up to 0.7071067811865476 and the product sums
\* to 1.0000000000000002; for [1,0]/[2,0] it is exactly 1.0; for [1,1] and
\* [2,1] with themselves it is 0.9999999999999998 and 0.9999999999999999;
\* for [1,1] with [3,3] or [6,6] it is 1.0.
CosineRoundsAboveOne(e1, e2) ==
  {e1, e2} \subseteq {<<3, 3>>, <<6, 6>>}

\* variant: the comparison is `>=` instead of `>`
SimilarityReaches(e1, e2, t) ==
  IF Parallel(e1, e2)
  THEN t <= 100
  ELSE /\ Dot(e1, e2) > 0
       /\ Dot(e1, e2) * Dot(e1, e2) * 10000
            >= t * t * Dot(e1, e1) * Dot(e2, e2)

\* calculate_similarity(e1, e2) > threshold, for a threshold t in hundredths.
\* Away from 1 the comparison cos = dot / (|e1| |e2|) > t / 100 is decided
\* exactly on integers (no drawn pair comes within rounding of a drawn
\* threshold); for parallel vectors the computed value exceeds every
\* threshold below 1.0, and exceeds 1.0 when it rounds above one.
SimilarityExceeds(e1, e2, t) ==
  IF Parallel(e1, e2)
  THEN t < 100 \/ (t = 100 /\ CosineRoundsAboveOne(e1, e2))
  ELSE /\ Dot(e1, e2) > 0
       /\ Dot(e1, e2) * Dot(e1, e2) * 10000
            > t * t * Dot(e1, e1) * Dot(e2, e2)

\* variant: the comparison is inverted (`similarity < threshold`-style)
IsDuplicateInverted(embs, keep_indices, i, t) ==
  \E x \in 1..Len(keep_indices) :
     ~SimilarityExceeds(embs[i][2], embs[keep_indices[x]][2], t)

\* variant: only the most recently kept item is compared
IsDuplicateLastOnly(embs, keep_indices, i, t) ==
  /\ keep_indices # <<>>
  /\ SimilarityExceeds(embs[i][2],
                       embs[keep_indices[Len(keep_indices)]][2], t)

\* int(x / y) for y > 0: Python's int() truncates toward zero
TruncDiv(x, y) == IF x >= 0 THEN x \div y ELSE 0 - ((0 - x) \div y)

\* lines 111-115, in frame units (seconds times video_fps):
\* `if duration:` takes the requested duration only when it is truthy
ActualDurationFrames(video, start_time, duration) ==
  LET remaining == video.total_frames - start_time * video.fps
  IN IF duration # None /\ duration[1] # 0
     THEN Min(duration[1] * video.fps, remaining)
     ELSE remaining

\* line 121: max_frames = min(self.max_frames_per_segment, int(actual_duration))
SamplerMaxFrames(video, start_time, duration) ==
  Min(max_frames_per_segment,
      TruncDiv(ActualDurationFrames(video, start_time, duration), video.fps))

\* lines 132-160: one sampling step; i is the 0-based ordinal.  The
\* timestamp start_time + i * (actual_duration / max_frames) is the fraction
\* <<numerator, denominator>>; frame_number = int(current_time * video_fps).
SampleStep(video, start_time, duration, i) ==
  LET mf == SamplerMaxFrames(video, start_time, duration)
      af == ActualDurationFrames(video, start_time, duration)
      num == start_time * video.fps * mf + i * af
  IN [index |-> i,
      timestamp |-> <<num, mf * video.fps>>,
      frame_number |-> num \div mf,
      path |-> <<i, <<num, mf * video.fps>>>>]

\* cap.read() after cap.set(POS_FRAMES, n): fails for the undecodable frames
ReadOk(video, frame_number) == frame_number \notin video.bad

\* variant: a failed read ends the loop
RECURSIVE SampleLoopBreak(_, _, _, _, _)
SampleLoopBreak(video, start_time, duration, i, extracted) ==
  IF i >= SamplerMaxFrames(video, start_time, duration) THEN extracted
  ELSE LET f == SampleStep(video, start_time, duration, i)
       IN IF ReadOk(video, f.frame_number)
          THEN SampleLoopBreak(video, start_time, duration, i + 1,
                               Append(extracted, f))
          ELSE extracted

RECURSIVE SampleLoop(_, _, _, _, _)
SampleLoop(video, start_time, duration, i, extracted) ==
  IF i >= SamplerMaxFrames(video, start_time, duration) THEN extracted
  ELSE LET f == SampleStep(video, start_time, duration, i)
       IN IF ReadOk(video, f.frame_number)
          THEN SampleLoop(video, start_time, duration, i + 1,
                          Append(extracted, f))
          ELSE SampleLoop(video, start_time, duration, i + 1, extracted)

\* extract_frames_from_video(..., uniform_sampling=True) on a video that
\* opens: the list of frame infos (lines 117-160, 206-212)
extract_frames_from_video(video, start_time, duration) ==
  IF SamplerMaxFrames(video, start_time, duration) <= 0 THEN <<>>
  ELSE SampleLoop(video, start_time, duration, 0, <<>>)

\* ratio_map (lines 321-328), each ratio as <<numerator, denominator>>
ratio_map ==
  ("4:3" :> <<4, 3>>) @@ ("3:2" :> <<3, 2>>) @@ ("16:9" :> <<16, 9>>) @@
  ("1:1" :> <<1, 1>>) @@ ("2:3" :> <<2, 3>>) @@ ("3:4" :> <<3, 4>>)

\* lines 335-376: the centred crop of one known ratio
CropResult(image, ratio_name) ==
  LET w == image.size[1]
      h == image.size[2]
      num == ratio_map[ratio_name][1]
      den == ratio_map[ratio_name][2]
      wider == w * den > h * num
      new_width == IF wider THEN (h * num) \div den ELSE w
      new_height == IF wider THEN h ELSE (w * den) \div num
      x_offset == IF wider THEN (w - new_width) \div 2 ELSE 0
      y_offset == IF wider THEN 0 ELSE (h - new_height) \div 2
      x1 == Max(0, x_offset)
      y1 == Max(0, y_offset)
      x2 == Min(w, x_offset + new_width)
      y2 == Min(h, y_offset + new_height)
  IN [crop_path |-> <<image.id, ratio_name>>,
      original_path |-> image.id,
      bbox |-> <<x1, y1, x2, y2>>,
      crop_type |-> "center",
      aspect_ratio |-> ratio_name,
      original_size |-> <<w, h>>,
      cropped_size |-> <<x2 - x1, y2 - y1>>,
      area |-> (x2 - x1) * (y2 - y1)]

\* variant: an unknown ratio name ends the loop
RECURSIVE CropLoopAbort(_, _, _, _)
CropLoopAbort(image, aspect_ratios, i, crop_results) ==
  IF i > Len(aspect_ratios) THEN crop_results
  ELSE IF aspect_ratios[i] \notin DOMAIN ratio_map
  THEN crop_results
  ELSE CropLoopAbort(image, aspect_ratios, i + 1,
                     Append(crop_results, CropResult(image, aspect_ratios[i])))

\* the loop over aspect_ratios (lines 330-376); i is the 1-based position
RECURSIVE CropLoop(_, _, _, _)
CropLoop(image, aspect_ratios, i, crop_results) ==
  IF i > Len(aspect_ratios) THEN crop_results
  ELSE IF aspect_ratios[i] \notin DOMAIN ratio_map
  THEN CropLoop(image, aspect_ratios, i + 1, crop_results)
  ELSE CropLoop(image, aspect_ratios, i + 1,
                Append(crop_results, CropResult(image, aspect_ratios[i])))

\* crop_image_center(image_path, output_dir, aspect_ratios) on an image
\* that opens
crop_image_center(image, aspect_ratios) ==
  CropLoop(image, aspect_ratios, 1, <<>>)

\* variant: the item is compared with every earlier item, kept or not
IsDuplicateOfAnyEarlier(embs, keep_indices, i, t) ==
  \E x \in 1..(i - 1) : SimilarityExceeds(embs[i][2], embs[x][2], t)

\* lines 485-495: is embeddings[i] a duplicate of an already kept item
IsDuplicate(embs, keep_indices, i, t) ==
  \E x \in 1..Len(keep_indices) :
     SimilarityExceeds(embs[i][2], embs[keep_indices[x]][2], t)

\* variant: the later item takes the place of the kept item it duplicates
OnDuplicateReplace(embs, keep_indices, i, t) ==
  LET hit == CHOOSE x \in 1..Len(keep_indices) :
               /\ SimilarityExceeds(embs[i][2], embs[keep_indices[x]][2], t)
               /\ \A y \in 1..(x - 1) :
                    ~SimilarityExceeds(embs[i][2], embs[keep_indices[y]][2], t)
  IN [keep_indices EXCEPT ![hit] = i]

\* lines 493-495: a duplicate is only counted; the kept list stays as it is
OnDuplicate(embs, keep_indices, i, t) == keep_indices

RECURSIVE KeepLoop(_, _, _, _)
KeepLoop(embs, keep_indices, i, t) ==
  IF i > Len(embs) THEN keep_indices
  ELSE IF IsDuplicate(embs, keep_indices, i, t)
       THEN KeepLoop(embs, OnDuplicate(embs, keep_indices, i, t), i + 1, t)
       ELSE KeepLoop(embs, Append(keep_indices, i), i + 1, t)

\* variant: the loop starts at the second item and nothing seeds the kept list
KeepIndicesFromSecond(embs, thr) ==
  LET t == IF thr = None THEN DefaultSimilarityThreshold ELSE thr[1]
  IN IF Len(embs) <= 1 THEN [i \in 1..Len(embs) |-> i]
     ELSE KeepLoop(embs, <<>>, 2, t)

\* remove_duplicate_images(embeddings, threshold), as kept positions (lines
\* 469-498); thr is optional
KeepIndices(embs, thr) ==
  LET t == IF thr = None THEN DefaultSimilarityThreshold ELSE thr[1]
  IN IF Len(embs) <= 1 THEN [i \in 1..Len(embs) |-> i]
     ELSE KeepLoop(embs, <<>>, 1, t)

\* variant: kept paths are collected newest first
remove_duplicate_images_reversed(embs, thr) ==
  LET ki == KeepIndices(embs, thr)
  IN [x \in 1..Len(ki) |-> embs[ki[Len(ki) + 1 - x]][1]]

\* lines 500-506: the kept paths, in keep_indices order
remove_duplicate_images(embs, thr) ==
  LET ki == KeepIndices(embs, thr)
  IN [x \in 1..Len(ki) |-> embs[ki[x]][1]]

\* the kept items with their embeddings, in kept order
KeptItems(embs, paths) ==
  LET PosOf(p) == CHOOSE i \in 1..Len(embs) : embs[i][1] = p
  IN [x \in 1..Len(paths) |-> embs[PosOf(paths[x])]]

\* lines 396-409: positions of the inputs whose file could be read
ValidPositions(image_paths, unreadable) ==
  SelectSeq([x \in 1..Len(image_paths) |-> x],
            LAMBDA x : image_paths[x] \notin unreadable)

\* the /encode-image/ endpoint (service/embedding_service/main.py) answers
\* with one embedding per image of the request, in request order;
\* vectors[x] is what the model computes for the input at position x
ResponseEmbeddings(sent, vectors) ==
  [y \in 1..Len(sent) |-> vectors[sent[y]]]

\* zip(paths, embeddings) of lines 432-433
ZipPairs(paths, embs) ==
  [y \in 1..Min(Len(paths), Len(embs)) |-> <<paths[y], embs[y]>>]

\* number of requests.post calls of one image_to_embedding call (line 416)
EncodeRequests(image_paths, unreadable) ==
  IF image_paths = <<>> THEN 0
  ELSE IF ValidPositions(image_paths, unreadable) = <<>> THEN 0
  ELSE 1

\* variant: the embeddings are zipped with the input paths
image_to_embedding_unaligned(image_paths, vectors, status, unreadable) ==
  LET sent == ValidPositions(image_paths, unreadable)
  IN IF image_paths = <<>> THEN <<>>
     ELSE IF sent = <<>> THEN <<>>
     ELSE IF status # "ok" THEN <<>>
     ELSE ZipPairs(image_paths, ResponseEmbeddings(sent, vectors))

\* image_to_embedding(image_paths): unreadable inputs are dropped, the rest
\* go out in one batched request; a backend failure (lines 427-429) is
\* swallowed and yields the empty list.
image_to_embedding(image_paths, vectors, status, unreadable) ==
  LET sent == ValidPositions(image_paths, unreadable)
      valid_paths == [y \in 1..Len(sent) |-> image_paths[sent[y]]]
  IN IF image_paths = <<>> THEN <<>>
     ELSE IF sent = <<>> THEN <<>>
     ELSE IF status # "ok" THEN <<>>
     ELSE ZipPairs(valid_paths, ResponseEmbeddings(sent, vectors))

SeqToSet(s) == {s[x] : x \in 1..Len(s)}

\* process_video_frames, from the candidate images on (lines 596-635); the
\* reducer is called without a threshold, so it uses the default.
process_video_frames(env) ==
  LET embs == image_to_embedding(env.images, env.vectors, env.status,
                                 env.unreadable)
      base == [original_frames |-> env.images,
               final_images |-> <<>>,
               removed_duplicates |-> {}]
  IN IF embs = <<>> THEN base
     ELSE LET final_images == remove_duplicate_images(embs, None)
          IN [base EXCEPT !.final_images = final_images,
                          !.removed_duplicates =
                              SeqToSet(env.images) \ SeqToSet(final_images)]

\* the parameters process_video_frames declares (lines 508-513)
ProcessVideoFramesParams ==
  {"video_path", "output_dir", "fps", "start_time", "duration",
   "crop_mode", "crop_ratios", "crop_confidence"}

\* ------------------------------------------------ summary_generator.py
\* lines 101-106: the number of groups aimed at
TargetSegments(total_segments) ==
  IF total_segments <= 12 THEN 4
  ELSE IF total_segments <= 18 THEN 5
  ELSE 6

\* lines 115-134: groups i, i+1, ... (0-based) from current_index on
RECURSIVE MergeLoop(_, _, _, _)
MergeLoop(segs, i, current_index, merged) ==
  LET total_segments == Len(segs)
      target_segments == TargetSegments(total_segments)
      segments_per_group == total_segments \div target_segments
      remainder == total_segments % target_segments
      group_size == segments_per_group + (IF i < remainder THEN 1 ELSE 0)
      group_segments ==
        SubSeq(segs, current_index + 1,
               Min(total_segments, current_index + group_size))
  IN IF i >= target_segments THEN merged
     ELSE IF current_index >= total_segments THEN merged
     ELSE MergeLoop(segs, i + 1, current_index + group_size,
            IF group_segments = <<>> THEN merged
            ELSE Append(merged,
                   [start_time |-> group_segments[1].start,
                    end_time |-> group_segments[Len(group_segments)].end,
                    text |-> [j \in 1..Len(group_segments) |->
                                group_segments[j].text],
                    original_segment_ids |->
                      [j \in 1..Len(group_segments) |->
                         group_segments[j].id]]))

\* _merge_segments_intelligently(segments)
merge_segments_intelligently(segs) ==
  IF segs = <<>> THEN <<>>
  ELSE IF Len(segs) >= 3 /\ Len(segs) <= 6 THEN segs
  ELSE MergeLoop(segs, 0, 0, <<>>)

\* ------------------------------------------------ advanced_processor.py
\* _create_fallback_visual_result(segment, segment_num=None)
create_fallback_visual_result(segment, segment_num) ==
  [segment_number |-> IF segment_num = None THEN 0 ELSE segment_num[1],
   time_range |-> <<segment.start_time, segment.end_time>>,
   duration |-> segment.end_time - segment.start_time,
   text |-> segment.text,
   summary |-> segment.summary,
   visual_result |-> None,
   key_images |-> <<>>,
   image_count |-> 0,
   processing_config |-> None,
   error |-> TRUE]

\* lines 210-215: the images at indices 0, step, 2*step, ... that exist
StrideSelect(image_paths, maxi, step) ==
  LET count == Cardinality({i \in 0..(maxi - 1) : i * step < Len(image_paths)})
  IN [x \in 1..count |-> image_paths[(x - 1) * step + 1]]

\* variant: the stride is rounded up instead of down
select_key_images_wide_step(image_paths, maxi) ==
  IF image_paths = <<>> THEN <<>>
  ELSE IF Len(image_paths) <= maxi THEN image_paths
  ELSE StrideSelect(image_paths, maxi, Len(image_paths) \div maxi + 1)

\* _select_key_images_for_segment(image_paths, max_images)
select_key_images_for_segment(image_paths, maxi) ==
  IF image_paths = <<>> THEN <<>>
  ELSE IF Len(image_paths) <= maxi THEN image_paths
  ELSE StrideSelect(image_paths, maxi, Len(image_paths) \div maxi)

\* variant: the upper clamp is missing
SegmentConfigNoUpperClamp(segment) ==
  LET duration == segment.end_time - segment.start_time
  IN [max_frames |-> Max(3, duration \div 10),
      start_time |-> segment.start_time,
      duration |-> duration,
      similarity_threshold |-> SegmentSimilarityThreshold,
      crop_mode |-> "center"]

\* segment_config (lines 153-159)
SegmentConfig(segment) ==
  LET duration == segment.end_time - segment.start_time
  IN [max_frames |-> Min(10, Max(3, duration \div 10)),
      start_time |-> segment.start_time,
      duration |-> duration,
      similarity_threshold |-> SegmentSimilarityThreshold,
      crop_mode |-> "center"]

\* keywords of the call at lines 163-167 that process_video_frames does not
\* declare; a non-empty set makes the call raise TypeError.
UnexpectedKeywords(segment_config) ==
  ({"video_path", "output_dir"} \cup DOMAIN segment_config)
     \ ProcessVideoFramesParams

\* variant: the except clause logs and re-raises
HandleTryExceptionReraise(segment, segment_num) ==
  [kind |-> "raised", raised_in |-> "try", result |-> None]

\* the except clause at lines 187-189
HandleTryException(segment, segment_num) ==
  [kind |-> "returned",
   raised_in |-> "try",
   result |-> create_fallback_visual_result(segment, Some(segment_num))]

\* _process_single_segment_visual.  dir_ok: whether output_path.mkdir
\* (line 146, outside the try) succeeds.  env: what the collaborators would
\* see for this segment.
process_single_segment_visual(segment, segment_num, dir_ok, env) ==
  LET segment_config == SegmentConfig(segment)
  IN IF ~dir_ok
     THEN [kind |-> "raised", raised_in |-> "setup", result |-> None]
     ELSE IF UnexpectedKeywords(segment_config) # {}
     THEN HandleTryException(segment, segment_num)
     ELSE LET result == process_video_frames(env)
              key_images ==
                select_key_images_for_segment(result.final_images, max_images)
          IN [kind |-> "returned",
              raised_in |-> "none",
              result |->
                [segment_number |-> segment_num,
                 time_range |-> <<segment.start_time, segment.end_time>>,
                 duration |-> segment_config.duration,
                 text |-> segment.text,
                 summary |-> segment.summary,
                 visual_result |-> Some(result),
                 key_images |-> key_images,
                 image_count |-> Len(key_images),
                 processing_config |-> Some(segment_config),
                 error |-> FALSE]]

\* the steps process_video_frames goes through (lines 543-607): sampling,
\* then cropping and encoding unless no frame was sampled, then reduction
\* unless nothing was embedded
ProcessVideoFramesStages(env) ==
  <<"SAMPLING">>
    \o (IF env.images = <<>> THEN <<>>
        ELSE <<"ENCODING">>
               \o (IF image_to_embedding(env.images, env.vectors, env.status,
                                         env.unreadable) = <<>>
                   THEN <<>>
                   ELSE <<"REDUCING">>))

\* the stages one invocation goes through, in order: it is PENDING until
\* process_video_frames starts; it ends DONE at the return of lines 176-186
\* and FAILED where a fallback result is produced for it (lines 187-189, or
\* line 111 when the invocation itself raised)
PipelineStages(segment, dir_ok, env) ==
  IF ~dir_ok THEN <<"PENDING", "FAILED">>
  ELSE IF UnexpectedKeywords(SegmentConfig(segment)) # {}
  THEN <<"PENDING", "FAILED">>
  ELSE <<"PENDING">> \o ProcessVideoFramesStages(env) \o <<"DONE">>

\* candidate images and vectors of a segment, as the collaborators see them
SegmentEnv(k) ==
  [images |-> <<k * 10 + 1, k * 10 + 2>>,
   vectors |-> <<<<1, 0>>, <<0, 1>>>>,
   status |-> backend[k],
   unreadable |-> {}]

\* lines 325-338: what is put in the image table for one key image
ImageCell(img_path, files) ==
  IF files[img_path] = "missing" THEN "not_found"
  ELSE IF files[img_path] = "load_fails" THEN "load_failed"
  ELSE "image"

\* lines 299-376: the flowables of segment i (1-based, as enumerate(.., 1))
SegmentFlowables(i, visual_segment, files, include_images) ==
  [heading |-> i,
   time_range |-> visual_segment.time_range,
   images |-> IF include_images /\ visual_segment.key_images # <<>>
              THEN [j \in 1..Len(visual_segment.key_images) |->
                      ImageCell(visual_segment.key_images[j], files)]
              ELSE <<>>]

\* line 388: the success rate divides by len(visual_segments)
StatisticsRaise(visual_segments) == Len(visual_segments) = 0

\* generate_mixed_content_pdf(enhanced_result, output_path, include_images);
\* files: what os.path.exists / Image see for each key image; build_ok:
\* whether doc.build succeeds (its exception is re-raised, lines 395-400)
generate_mixed_content_pdf(enhanced, files, build_ok) ==
  LET visual_segments == enhanced.visual_segments
      story == [i \in 1..Len(visual_segments) |->
                  SegmentFlowables(i, visual_segments[i], files, TRUE)]
  IN IF StatisticsRaise(visual_segments)
     THEN [kind |-> "raised", exception |-> "ZeroDivisionError", story |-> <<>>]
     ELSE IF ~build_ok
     THEN [kind |-> "raised", exception |-> "build", story |-> <<>>]
     ELSE [kind |-> "returned", exception |-> "none", story |-> story]

\* variant: every segment is submitted twice
ExecutorSubmitTwice(q, i) == Append(Append(q, i), i)

\* executor.submit (lines 91-97): one task per loop iteration joins the
\* pool's work queue
ExecutorSubmit(q, i) == Append(q, i)

\* variant: one thread per submitted task
WorkerAlwaysAvailable(executing) == TRUE

\* ThreadPoolExecutor(max_workers=3): a queued task starts only while fewer
\* than max_workers tasks are executing.
WorkerAvailable(executing) == Cardinality(executing) < max_workers

\* variant: every future is mapped to the loop's last (i, segment)
FutureToLastSegment(k) == <<N, segments[N]>>

\* future_to_segment[future] = (i, segment)  (line 98)
FutureToSegment(k) == <<k, segments[k]>>

\* variant: results are appended in completion order
SlotIndexAppend(segment_index, already_yielded) ==
  Cardinality(already_yielded) + 1

\* visual_results[segment_index] = ...  (lines 107, 111)
SlotIndex(segment_index, already_yielded) == segment_index

\* variant: the except branch only logs, the slot stays None
CollectResultLogOnly(out, segment) ==
  IF out.kind = "returned" THEN Some(out.result) ELSE None

\* lines 105-111: what the collection loop stores for a finished future
CollectResult(out, segment) ==
  IF out.kind = "returned" THEN Some(out.result)
  ELSE Some(create_fallback_visual_result(segment, None))

Finished(k) == outcome[k] # None

InitOrchIdle ==
  /\ segments = <<>>
  /\ backend = <<>>
  /\ pc = "idle"
  /\ next_i = 1
  /\ queue = <<>>
  /\ running = {}
  /\ outcome = <<>>
  /\ yielded = {}
  /\ visual_results = None
  /\ writes = <<>>
  /\ enhanced_result = None

InitRedIdle ==
  /\ embeddings = <<>>
  /\ threshold = 100
  /\ kept = None
  /\ kept_again = None
  /\ rpc = "idle"

InitCallIdle ==
  /\ call = [fn |-> "none"]
  /\ ret = None

\* a transcript: consecutive spans of the given durations, each with its own text
Transcript(durs) ==
  LET RECURSIVE StartOf(_)
      StartOf(k) == IF k = 1 THEN 0 ELSE StartOf(k - 1) + durs[k - 1]
  IN [k \in 1..Len(durs) |->
        [start_time |-> StartOf(k),
         end_time |-> StartOf(k) + durs[k],
         text |-> 100 + k,
         summary |-> 200 + k]]

InitOrch ==
  /\ \E n \in 0..MaxSegs :
       /\ \E d \in Durations : segments = Transcript([k \in 1..n |-> d])
       /\ backend \in [1..n -> BackendStatus]
       /\ outcome = [k \in 1..n |-> None]
       /\ writes = [k \in 1..n |-> <<>>]
  /\ pc = "submit"
  /\ next_i = 1
  /\ queue = <<>>
  /\ running = {}
  /\ yielded = {}
  /\ visual_results = None
  /\ enhanced_result = None

Init == InitOrch /\ InitRedIdle /\ InitCallIdle

\* lines 88-98: executor.submit for the next segment
Submit ==
  /\ pc = "submit"
  /\ next_i <= N
  /\ queue' = ExecutorSubmit(queue, next_i)
  /\ next_i' = next_i + 1
  /\ UNCHANGED <<segments, backend, pc, running, outcome, yielded,
                 visual_results, writes, enhanced_result>>
  /\ UNCHANGED <<redVars, callVars>>

\* line 101: visual_results = [None] * len(segments)
AllocResults ==
  /\ pc = "submit"
  /\ next_i > N
  /\ visual_results' = Some([k \in 1..N |-> None])
  /\ pc' = "collect"
  /\ UNCHANGED <<segments, backend, next_i, queue, running, outcome, yielded,
                 writes, enhanced_result>>
  /\ UNCHANGED <<redVars, callVars>>

\* a worker thread takes the oldest queued task
StartTask ==
  /\ queue # <<>>
  /\ WorkerAvailable(running)
  /\ running' = running \cup {Head(queue)}
  /\ queue' = Tail(queue)
  /\ UNCHANGED <<segments, backend, pc, next_i, outcome, yielded,
                 visual_results, writes, enhanced_result>>
  /\ UNCHANGED <<redVars, callVars>>

\* a worker thread runs _process_single_segment_visual to its end
RunTask(k) ==
  /\ k \in running
  /\ \E dir_ok \in BOOLEAN :
       outcome' = [outcome EXCEPT ![k] =
          Some(process_single_segment_visual(segments[k], k, dir_ok,
                                             SegmentEnv(k)))]
  /\ running' = running \ {k}
  /\ UNCHANGED <<segments, backend, pc, next_i, queue, yielded,
                 visual_results, writes, enhanced_result>>
  /\ UNCHANGED <<redVars, callVars>>

\* lines 103-111: as_completed yields a finished future, its slot is written
Collect(k) ==
  /\ pc = "collect"
  /\ k \in 1..N
  /\ Finished(k)
  /\ k \notin yielded
  /\ LET fs == FutureToSegment(k)
         idx == SlotIndex(fs[1], yielded)
     IN /\ visual_results' =
             Some([visual_results[1] EXCEPT
                     ![idx] = CollectResult(outcome[k][1], fs[2])])
        /\ writes' = [writes EXCEPT ![idx] = Append(@, k)]
  /\ yielded' = yielded \cup {k}
  /\ UNCHANGED <<segments, backend, pc, next_i, queue, running, outcome,
                 enhanced_result>>
  /\ UNCHANGED <<redVars, callVars>>

\* lines 113-127: every future was yielded; build and return the result
Return ==
  /\ pc = "collect"
  /\ yielded = 1..N
  /\ enhanced_result' =
       Some([visual_segments |-> visual_results[1],
             concurrent_segments |-> N])
  /\ pc' = "returned"
  /\ UNCHANGED <<segments, backend, next_i, queue, running, outcome, yielded,
                 visual_results, writes>>
  /\ UNCHANGED <<redVars, callVars>>

Next ==
  \/ Submit
  \/ AllocResults
  \/ StartTask
  \/ \E k \in 1..N : RunTask(k)
  \/ \E k \in 1..N : Collect(k)
  \/ Return

Spec == Init /\ [][Next]_vars

\* helpers for stating the orchestrator's properties
Slots == visual_results[1]
Returned == pc = "returned"
Batch == enhanced_result[1].visual_segments
OutcomeOf(k) == outcome[k][1]
BelongsTo(r, k) ==
  /\ r.text = segments[k].text
  /\ r.summary = segments[k].summary
  /\ r.time_range = <<segments[k].start_time, segments[k].end_time>>

\* C1: the returned list has one result per input segment and the result at
\* position k is the one computed for input segment k, whatever the order in
\* which the worker tasks completed; already while collecting, every result
\* written so far sits in its own segment's slot.
C1_OrderByInputIndex ==
  /\ pc \in {"collect", "returned"} =>
       /\ Len(Slots) = N
       /\ \A k \in yielded :
            /\ Slots[k] # None
            /\ BelongsTo(Slots[k][1], k)
            /\ OutcomeOf(k).kind = "returned" => Slots[k][1] = OutcomeOf(k).result
       /\ \A k \in (1..N) \ yielded : Slots[k] = None
  /\ Returned =>
       /\ yielded = 1..N
       /\ Len(Batch) = N
       /\ Batch = Slots

\* the last segment completed and was collected before the first one
C1_Witness ==
  /\ pc = "collect"
  /\ N >= 3
  /\ yielded = {N}
  /\ Slots[N] # None
  /\ BelongsTo(Slots[N][1], N)
  /\ Slots[1] = None

\* C2 (as claimed): every returned result has segment_number equal to its
\* position, also for a segment that failed at the dispatch boundary.
C2_SegmentNumberIsPosition ==
  Returned => \A k \in 1..N : Batch[k][1].segment_number = k

IsFallbackFor(r, k) ==
  /\ BelongsTo(r, k)
  /\ r.key_images = <<>>
  /\ r.image_count = 0
  /\ r.error = TRUE

C4_RaiseIsolated ==
  Returned =>
     \A k \in 1..N :
        /\ Batch[k] # None
        /\ OutcomeOf(k).kind = "raised" =>
             /\ IsFallbackFor(Batch[k][1], k)
             /\ Batch[k][1].visual_result = None
        /\ OutcomeOf(k).kind = "returned" =>
             Batch[k][1] = OutcomeOf(k).result

\* a batch returned in which one invocation raised and another returned
C4_Witness ==
  /\ Returned
  /\ \E k, j \in 1..N :
        /\ OutcomeOf(k).kind = "raised"
        /\ OutcomeOf(j).kind = "returned"
        /\ Batch[k] # None
        /\ Batch[k][1].error = TRUE

\* C5 (as claimed): when the embedding backend fails for exactly one segment
\* and answers for all others (and nothing else goes wrong), exactly that
\* segment's result has the error flag, with no key images, and every other
\* result is a non-error result.
C5_OneBackendFailureOneError ==
  (/\ Returned
   /\ Cardinality({k \in 1..N : backend[k] = "500"}) = 1
   /\ \A k \in 1..N : OutcomeOf(k).raised_in # "setup")
     => \A k \in 1..N :
           /\ Batch[k][1].error = (backend[k] = "500")
           /\ backend[k] = "500" => Batch[k][1].key_images = <<>>

\* C6: at every moment at most max_workers (3) pipeline invocations are
\* executing, however many segments were submitted.
C6_BoundedConcurrency ==
  Cardinality(running) <= max_workers

\* the pool is saturated while a submitted segment waits in the queue
C6_Witness ==
  /\ Cardinality(running) = max_workers
  /\ queue # <<>>

\* C7: each result slot is written at most once, only by its own segment's
\* future, and exactly once by the time the batch returns.
C7_SlotWrittenOnce ==
  \A s \in 1..N :
     /\ Len(writes[s]) <= 1
     /\ \A x \in 1..Len(writes[s]) : writes[s][x] = s
     /\ Returned => writes[s] = <<s>>

\* a batch of several segments returned, every slot written by its own future
C7_Witness ==
  /\ Returned
  /\ N >= 2
  /\ \A s \in 1..N : writes[s] = <<s>>

\* ------------------------------------------------ the reducer on its own
\* Inputs of remove_duplicate_images: up to MaxLen items with distinct paths
\* (frame and crop file names carry their ordinal) and any drawn vectors.
InitReducer ==
  /\ InitOrchIdle
  /\ InitCallIdle
  /\ \E n \in 0..MaxLen :
       \E vs \in [1..n -> Vectors] :
          embeddings = [i \in 1..n |-> <<10 + i, vs[i]>>]
  /\ threshold \in Thresholds
  /\ kept = None
  /\ kept_again = None
  /\ rpc = "input"

\* kept = remove_duplicate_images(embeddings, threshold)
Reduce ==
  /\ rpc = "input"
  /\ kept' = Some(remove_duplicate_images(embeddings, Some(threshold)))
  /\ rpc' = "reduced"
  /\ UNCHANGED <<embeddings, threshold, kept_again>>
  /\ UNCHANGED <<orchVars, callVars>>

\* the reducer applied to what it kept, same threshold
ReduceAgain ==
  /\ rpc = "reduced"
  /\ kept_again' =
       Some(remove_duplicate_images(KeptItems(embeddings, kept[1]),
                                    Some(threshold)))
  /\ rpc' = "again"
  /\ UNCHANGED <<embeddings, threshold, kept>>
  /\ UNCHANGED <<orchVars, callVars>>

NextReducer == Reduce \/ ReduceAgain

SpecReducer == InitReducer /\ [][NextReducer]_vars

\* helpers for stating the reducer's properties
PathAt(i) == embeddings[i][1]
VecAt(i) == embeddings[i][2]
NearDup(i, j) == SimilarityExceeds(VecAt(i), VecAt(j), threshold)
IsKept(i) == \E x \in 1..Len(kept[1]) : kept[1][x] = PathAt(i)

\* C8: remove_duplicate_images is idempotent: applied to the items it kept
\* (with their embeddings, in kept order, same threshold) it returns exactly
\* the kept list again.
C8_Idempotent ==
  rpc = "again" => kept_again = kept

\* the second pass ran its comparison loop on a list the first pass shortened
C8_Witness ==
  /\ rpc = "again"
  /\ Len(kept[1]) >= 2
  /\ Len(kept[1]) < Len(embeddings)
  /\ kept_again = kept

PairwiseDistinctVectors ==
  \A i, j \in 1..Len(embeddings) : i # j => VecAt(i) # VecAt(j)

\* C10 (as claimed): with threshold 1.0 and pairwise distinct vectors every
\* item is kept: the output length equals the input length.
C10_ThresholdOneKeepsAll ==
  (rpc # "input" /\ threshold = 100 /\ PairwiseDistinctVectors)
     => Len(kept[1]) = Len(embeddings)

\* ------------------------------------------------ single calls
\* increasing lists of distinct image identifiers
RECURSIVE SetToSortedSeq(_)
SetToSortedSeq(S) ==
  IF S = {} THEN <<>>
  ELSE LET m == CHOOSE x \in S : \A y \in S : x <= y
       IN <<m>> \o SetToSortedSeq(S \ {m})

InitCalls ==
  /\ InitOrchIdle
  /\ InitRedIdle
  /\ ret = None
  /\ \/ \E d \in 0..MaxDuration, st \in StartTimes :
          call = [fn |-> "segment_config",
                  segment |-> [start_time |-> st, end_time |-> st + d,
                               text |-> 101, summary |-> 201]]
     \/ \E S \in SUBSET (1..MaxPaths) :
          call = [fn |-> "select_key_images",
                  image_paths |-> SetToSortedSeq(S)]
     \/ \E f \in VideoFps, tf \in TotalFrames, b \in BadFrameSets,
           st \in StartTimes, d \in RequestedDurations :
          call = [fn |-> "extract_frames",
                  video |-> [fps |-> f, total_frames |-> tf, bad |-> b],
                  start_time |-> st,
                  duration |-> d]
     \/ \E n \in 0..MaxPdfSegs, fs \in [{1, 2} -> FileStatus], b \in BOOLEAN :
          \E ks \in [1..n -> KeyImageLists] :
             call = [fn |-> "generate_mixed_content_pdf",
                     enhanced_result |->
                       [visual_segments |->
                          [i \in 1..n |->
                             [time_range |-> <<20 * (i - 1), 20 * i>>,
                              key_images |-> ks[i],
                              image_count |-> Len(ks[i]),
                              error |-> (ks[i] = <<>>)]]],
                     files |-> fs,
                     build_ok |-> b]
     \/ \E n \in 0..MaxOriginal :
          call = [fn |-> "merge_segments_intelligently",
                  segments |-> [i \in 1..n |->
                                  [id |-> i - 1, start |-> 10 * (i - 1),
                                   end |-> 10 * i, text |-> 100 + i]]]
     \/ \E n \in 0..MaxRatios, sz \in ImageSizes :
          \E rs \in [1..n -> RatioNames] :
             call = [fn |-> "crop_image_center",
                     image |-> [id |-> 11, size |-> sz],
                     aspect_ratios |-> rs]
     \/ \E n \in 0..MaxLen, st \in BackendStatus :
          \E vs \in [1..n -> Vectors], un \in SUBSET {10 + i : i \in 1..n},
             f \in {"process_video_frames", "image_to_embedding"} :
             call = [fn |-> f,
                     env |-> [images |-> [i \in 1..n |-> 10 + i],
                              vectors |-> vs,
                              status |-> st,
                              unreadable |-> un]]

\* lines 148-159 of _process_single_segment_visual
CallSegmentConfig ==
  /\ call.fn = "segment_config"
  /\ ret = None
  /\ ret' = Some(SegmentConfig(call.segment))
  /\ UNCHANGED <<call, orchVars, redVars>>

\* _select_key_images_for_segment(image_paths, max_images=3)
CallSelectKeyImages ==
  /\ call.fn = "select_key_images"
  /\ ret = None
  /\ ret' = Some(select_key_images_for_segment(call.image_paths, max_images))
  /\ UNCHANGED <<call, orchVars, redVars>>

\* extract_frames_from_video(video, out, fps, start_time, duration, True)
CallExtractFrames ==
  /\ call.fn = "extract_frames"
  /\ ret = None
  /\ ret' = Some(extract_frames_from_video(call.video, call.start_time,
                                           call.duration))
  /\ UNCHANGED <<call, orchVars, redVars>>

\* process_video_frames, from the candidate images on
CallProcessVideoFrames ==
  /\ call.fn = "process_video_frames"
  /\ ret = None
  /\ ret' = Some(process_video_frames(call.env))
  /\ UNCHANGED <<call, orchVars, redVars>>

\* crop_image_center(image_path, output_dir, aspect_ratios)
CallCropImageCenter ==
  /\ call.fn = "crop_image_center"
  /\ ret = None
  /\ ret' = Some(crop_image_center(call.image, call.aspect_ratios))
  /\ UNCHANGED <<call, orchVars, redVars>>

\* image_to_embedding(image_paths), with the number of requests it sent
CallImageToEmbedding ==
  /\ call.fn = "image_to_embedding"
  /\ ret = None
  /\ ret' = Some([result |-> image_to_embedding(call.env.images,
                                                call.env.vectors,
                                                call.env.status,
                                                call.env.unreadable),
                  requests |-> EncodeRequests(call.env.images,
                                              call.env.unreadable)])
  /\ UNCHANGED <<call, orchVars, redVars>>

\* generate_mixed_content_pdf(enhanced_result, output_path)
CallGeneratePdf ==
  /\ call.fn = "generate_mixed_content_pdf"
  /\ ret = None
  /\ ret' = Some(generate_mixed_content_pdf(call.enhanced_result, call.files,
                                            call.build_ok))
  /\ UNCHANGED <<call, orchVars, redVars>>

\* _merge_segments_intelligently(segments)
CallMergeSegments ==
  /\ call.fn = "merge_segments_intelligently"
  /\ ret = None
  /\ ret' = Some(merge_segments_intelligently(call.segments))
  /\ UNCHANGED <<call, orchVars, redVars>>

NextCalls ==
  \/ CallMergeSegments
  \/ CallGeneratePdf
  \/ CallImageToEmbedding
  \/ CallCropImageCenter
  \/ CallSegmentConfig
  \/ CallSelectKeyImages
  \/ CallExtractFrames
  \/ CallProcessVideoFrames

SpecCalls == InitCalls /\ [][NextCalls]_vars

Called(fn) == call.fn = fn /\ ret # None

\* C11 (as claimed): with threshold 1.0 an item whose vector is identical to
\* the vector of an already kept item is discarded.
C11_IdenticalMergeAtOne ==
  (rpc # "input" /\ threshold = 100) =>
     \A i \in 1..Len(embeddings) :
        (\E j \in 1..(i - 1) : IsKept(j) /\ VecAt(j) = VecAt(i))
           => ~IsKept(i)

\* C11 (amended): with threshold 1.0 the test is the strict
\* `similarity > 1.0`, so an item is discarded exactly when its computed
\* cosine with an earlier kept item rounds above 1.0; an item identical to a
\* kept item whose computed cosine is 1.0 or less is kept as well.
C11_StrictAtOne ==
  (rpc # "input" /\ threshold = 100) =>
     \A i \in 1..Len(embeddings) :
        ~IsKept(i) <=>
           \E j \in 1..(i - 1) :
              /\ IsKept(j)
              /\ Parallel(VecAt(i), VecAt(j))
              /\ CosineRoundsAboveOne(VecAt(i), VecAt(j))

\* two items with the same vector were reduced at threshold 1.0, both kept
C11_Witness ==
  /\ rpc = "reduced"
  /\ threshold = 100
  /\ \E i, j \in 1..Len(embeddings) :
        /\ i < j
        /\ VecAt(i) = VecAt(j)
        /\ IsKept(i)
        /\ IsKept(j)

PosOfPath(p) == CHOOSE i \in 1..Len(embeddings) : PathAt(i) = p

\* C13: the returned list is a subsequence of the input identifiers in their
\* original relative order: every returned path is an input path, none is
\* repeated and positions increase; an input of 0 or 1 items is returned
\* unchanged.
C13_SubsequenceInOrder ==
  rpc # "input" =>
     /\ \A x \in 1..Len(kept[1]) :
           \E i \in 1..Len(embeddings) : PathAt(i) = kept[1][x]
     /\ \A x, y \in 1..Len(kept[1]) :
           x < y => PosOfPath(kept[1][x]) < PosOfPath(kept[1][y])
     /\ Len(embeddings) <= 1 =>
           kept[1] = [i \in 1..Len(embeddings) |-> PathAt(i)]

\* three items reduced to the first two, in input order
C13_Witness ==
  /\ rpc = "reduced"
  /\ Len(embeddings) = 3
  /\ kept[1] = <<PathAt(1), PathAt(2)>>

\* C14: no two distinct kept items have cosine similarity above the
\* threshold.
C14_KeptPairwiseBelowThreshold ==
  rpc # "input" =>
     \A i, j \in 1..Len(embeddings) :
        (i # j /\ IsKept(i) /\ IsKept(j)) => ~NearDup(i, j)

\* a list was shortened and the survivors skip over a dropped item
C14_Witness ==
  /\ rpc = "reduced"
  /\ Len(embeddings) = 3
  /\ kept[1] = <<PathAt(1), PathAt(3)>>
  /\ NearDup(2, 1)
  /\ ~NearDup(1, 3)

\* ------------------------------------------------ segment configuration
CallDuration == call.segment.end_time - call.segment.start_time

\* C15: the max_frames of a segment's configuration is its duration divided
\* by ten, truncated to an integer, and clamped to the range 3..10.
C15_MaxFramesClamp ==
  Called("segment_config") =>
     LET q == CallDuration \div 10
         mf == ret[1].max_frames
     IN /\ mf \in 3..10
        /\ (q \in 3..10) => mf = q
        /\ (q < 3) => mf = 3
        /\ (q > 10) => mf = 10

C15_Witness ==
  /\ Called("segment_config")
  /\ CallDuration = 119
  /\ ret[1].max_frames = 10

\* C16: a pipeline invocation that returns has sampled exactly max_frames
\* frames for its segment (3 for the segment from 0 to 20), the video being
\* long enough and every decode succeeding.
C16_SampledFramesEqualMaxFrames ==
  \A k \in 1..N :
     (Finished(k) /\ OutcomeOf(k).kind = "returned") =>
        /\ OutcomeOf(k).result.visual_result # None
        /\ Len(OutcomeOf(k).result.visual_result[1].original_frames)
              = SegmentConfig(segments[k]).max_frames

\* C17: the reduction run on behalf of a segment applies the segment
\* threshold 0.85, not the default 0.95: what process_video_frames keeps is
\* what the reducer keeps at 0.85.
C17_ReductionUsesSegmentThreshold ==
  (Called("process_video_frames") /\ call.env.status = "ok"
      /\ call.env.images # <<>> /\ call.env.unreadable = {}) =>
     ret[1].final_images =
        remove_duplicate_images(
           image_to_embedding(call.env.images, call.env.vectors, "ok", {}),
           Some(SegmentSimilarityThreshold))

\* ------------------------------------------------ key-image selection
\* position of an image identifier in the call's kept list
PosInCall(p) == CHOOSE i \in 1..Len(call.image_paths) : call.image_paths[i] = p

\* C18: the selection has exactly min(n, 3) images, all from the kept list,
\* none repeated, in the order of the kept list.
C18_SelectionCountAndOrder ==
  Called("select_key_images") =>
     LET sel == ret[1]
     IN /\ Len(sel) = Min(Len(call.image_paths), max_images)
        /\ \A x \in 1..Len(sel) :
              \E i \in 1..Len(call.image_paths) : call.image_paths[i] = sel[x]
        /\ \A x, y \in 1..Len(sel) :
              x < y => PosInCall(sel[x]) < PosInCall(sel[y])

C18_Witness ==
  /\ Called("select_key_images")
  /\ Len(call.image_paths) = 7
  /\ ret[1] = <<call.image_paths[1], call.image_paths[3], call.image_paths[5]>>

\* C19: with more than three kept images the selection is spread over the
\* kept list by a uniform stride, so it is not just the first three images.
C19_NotJustFirstThree ==
  (Called("select_key_images") /\ Len(call.image_paths) > max_images) =>
     ret[1] # SubSeq(call.image_paths, 1, max_images)

\* ------------------------------------------------ frame sampler
\* the requested duration capped by what remains of the video after
\* start_time, in frame units; no requested duration means the remainder
ClampedDurationFrames ==
  LET remaining == call.video.total_frames - call.start_time * call.video.fps
  IN IF call.duration = None THEN remaining
     ELSE Min(call.duration[1] * call.video.fps, remaining)

\* C20: whenever the clamped duration is zero or negative (a requested
\* duration of 0, or a start_time at or past the end of the video) the
\* sampler returns the empty list.
C20_EmptyWhenNothingToSample ==
  (Called("extract_frames") /\ ClampedDurationFrames <= 0) => ret[1] = <<>>

\* number of steps of the call, the duration it samples (in frame units) and
\* the frame a step seeks to
CallSteps == SamplerMaxFrames(call.video, call.start_time, call.duration)
CallSampled == ActualDurationFrames(call.video, call.start_time, call.duration)
StepFrame(i) ==
  (call.start_time * call.video.fps * CallSteps + i * CallSampled)
     \div CallSteps
StepDecodes(i) == StepFrame(i) \notin call.video.bad

\* C21: a step whose read fails is skipped and every other step is still
\* attempted: the returned frames are exactly those of the steps that
\* decoded, in increasing ordinal index, each with the timestamp
\* start_time + index * (duration / max_frames).
C21_FailedStepSkipped ==
  (Called("extract_frames") /\ CallSteps > 0) =>
     LET frames == ret[1]
     IN /\ \A x \in 1..Len(frames) :
              /\ frames[x].index \in 0..(CallSteps - 1)
              /\ StepDecodes(frames[x].index)
              /\ frames[x].timestamp =
                   <<call.start_time * call.video.fps * CallSteps
                        + frames[x].index * CallSampled,
                     CallSteps * call.video.fps>>
        /\ \A x, y \in 1..Len(frames) :
              x < y => frames[x].index < frames[y].index
        /\ \A i \in 0..(CallSteps - 1) :
              StepDecodes(i) => \E x \in 1..Len(frames) : frames[x].index = i

C21_Witness ==
  /\ Called("extract_frames")
  /\ CallSteps >= 3
  /\ ~StepDecodes(1)
  /\ Len(ret[1]) = CallSteps - 1
  /\ ret[1][1].index = 0
  /\ ret[1][2].index = 2

\* ------------------------------------------------ region extractor
KnownRequested ==
  SelectSeq(call.aspect_ratios, LAMBDA r : r \in DOMAIN ratio_map)

\* C22: for a request mixing unknown and known ratio names, each unknown
\* name is skipped and the result has exactly one region per known name of
\* the request, in request order.
C22_UnknownRatioSkipped ==
  Called("crop_image_center") =>
     /\ Len(ret[1]) = Len(KnownRequested)
     /\ \A x \in 1..Len(ret[1]) : ret[1][x].aspect_ratio = KnownRequested[x]

C22_Witness ==
  /\ Called("crop_image_center")
  /\ call.aspect_ratios = <<"5:5", "4:3", "3:2">>
  /\ Len(ret[1]) = 2
  /\ ret[1][1].aspect_ratio = "4:3"
  /\ ret[1][2].aspect_ratio = "3:2"

\* ------------------------------------------------ embedding client
\* positions of the call's inputs that could be read, in input order
ReadablePositions ==
  SelectSeq([x \in 1..Len(call.env.images) |-> x],
            LAMBDA x : call.env.images[x] \notin call.env.unreadable)

\* C23: image_to_embedding returns (path, vector) pairs for exactly the
\* readable inputs, in input order, each with the vector the backend
\* produced for that image; unreadable inputs are dropped; a backend
\* failure gives the empty list; at most one request is sent.
C23_EncodePreservesOrder ==
  Called("image_to_embedding") =>
     LET res == ret[1].result
     IN /\ ret[1].requests <= 1
        /\ call.env.status # "ok" => res = <<>>
        /\ call.env.status = "ok" =>
              /\ Len(res) = Len(ReadablePositions)
              /\ \A y \in 1..Len(res) :
                    /\ res[y][1] = call.env.images[ReadablePositions[y]]
                    /\ res[y][2] = call.env.vectors[ReadablePositions[y]]

C23_Witness ==
  /\ Called("image_to_embedding")
  /\ call.env.status = "ok"
  /\ Len(call.env.images) = 3
  /\ call.env.unreadable = {call.env.images[1]}
  /\ call.env.vectors[1] # call.env.vectors[2]
  /\ Len(ret[1].result) = 2
  /\ ret[1].result[1] = <<call.env.images[2], call.env.vectors[2]>>
  /\ ret[1].requests = 1

\* ------------------------------------------------ per-segment stages
StageTransitions ==
  {<<"PENDING", "SAMPLING">>, <<"SAMPLING", "ENCODING">>,
   <<"ENCODING", "REDUCING">>, <<"REDUCING", "DONE">>,
   <<"SAMPLING", "FAILED">>, <<"ENCODING", "FAILED">>,
   <<"REDUCING", "FAILED">>}

StagesOf(k) ==
  PipelineStages(segments[k], OutcomeOf(k).raised_in # "setup", SegmentEnv(k))

\* C24: every finished invocation went PENDING, SAMPLING, ENCODING,
\* REDUCING, DONE in that order with no stage skipped, or left that path for
\* FAILED from a stage other than PENDING; it ended in DONE or FAILED.
C24_StagesInOrder ==
  \A k \in 1..N :
     Finished(k) =>
        LET t == StagesOf(k)
        IN /\ t[1] = "PENDING"
           /\ t[Len(t)] \in {"DONE", "FAILED"}
           /\ \A x \in 1..(Len(t) - 1) : <<t[x], t[x + 1]>> \in StageTransitions

\* ------------------------------------------------ document
\* C25: for every batch result, of any number of segments (zero and
\* all-failed included) and whatever the state of the image files, the
\* document is produced and nothing is raised, as long as writing the
\* document itself succeeds.
C25_DocumentAlwaysRenders ==
  (Called("generate_mixed_content_pdf") /\ call.build_ok) =>
     /\ ret[1].kind = "returned"
     /\ Len(ret[1].story) = Len(call.enhanced_result.visual_segments)

\* ------------------------------------------------ dispatch
\* how many tasks for segment k are queued, executing or finished
TasksFor(k) ==
  Cardinality({x \in 1..Len(queue) : queue[x] = k})
    + (IF k \in running THEN 1 ELSE 0)
    + (IF Finished(k) THEN 1 ELSE 0)

FailedInvocation(k) ==
  \/ OutcomeOf(k).kind = "raised"
  \/ OutcomeOf(k).result.error

\* C26: within one batch there is exactly one invocation per input segment:
\* a segment the submit loop has reached has exactly one task (queued,
\* executing or finished), a finished segment is never dispatched again, and
\* at the return every segment was invoked and a failed segment's slot holds
\* its fallback, written once.
C26_InvokedExactlyOnce ==
  \A k \in 1..N :
     /\ TasksFor(k) = (IF k < next_i THEN 1 ELSE 0)
     /\ Returned =>
           /\ Finished(k)
           /\ Len(writes[k]) = 1
           /\ FailedInvocation(k) => IsFallbackFor(Batch[k][1], k)

C26_Witness ==
  /\ Returned
  /\ N >= 2
  /\ \E k \in 1..N : OutcomeOf(k).kind = "raised"
  /\ \E k \in 1..N : OutcomeOf(k).kind = "returned" /\ FailedInvocation(k)

\* ------------------------------------------------ segment merging
\* C27: for every non-empty list of original segments the merged list has
\* between 3 and 6 segments.
C27_MergedCountInRange ==
  (Called("merge_segments_intelligently") /\ call.segments # <<>>) =>
     (Len(ret[1]) >= 3 /\ Len(ret[1]) <= 6)

\* ------------------------------------------------ successful invocation
\* C28: an invocation for which no collaborator fails or raises (the output
\* directory is created, the backend answers) returns a non-fallback result:
\* no error flag, visual_result present, and key_images the stride selection
\* over the kept list of that segment.
C28_SuccessGivesResult ==
  \A k \in 1..N :
     (Finished(k) /\ OutcomeOf(k).raised_in # "setup" /\ backend[k] = "ok") =>
        /\ OutcomeOf(k).kind = "returned"
        /\ OutcomeOf(k).result.error = FALSE
        /\ OutcomeOf(k).result.visual_result # None
        /\ OutcomeOf(k).result.key_images =
             select_key_images_for_segment(
                process_video_frames(SegmentEnv(k)).final_images, max_images)

\* ------------------------------------------------ kept and removed images
CandidateVector(p) ==
  call.env.vectors[CHOOSE x \in 1..Len(call.env.images) : call.env.images[x] = p]
CandidatePos(p) ==
  CHOOSE x \in 1..Len(call.env.images) : call.env.images[x] = p

\* C29: when process_video_frames ran its reduction, final_images and
\* removed_duplicates partition the candidate images, and every removed
\* image was embedded and is similar above the threshold to an earlier kept
\* image; an image that could not be read is not among the removed
\* duplicates.
C29_RemovedAreDuplicates ==
  (Called("process_video_frames") /\ ret[1].final_images # <<>>) =>
     LET final == SeqToSet(ret[1].final_images)
         removed == ret[1].removed_duplicates
     IN /\ final \cup removed = SeqToSet(call.env.images)
        /\ final \cap removed = {}
        /\ \A p \in removed :
              /\ p \notin call.env.unreadable
              /\ \E q \in final :
                    /\ CandidatePos(q) < CandidatePos(p)
                    /\ SimilarityExceeds(CandidateVector(p), CandidateVector(q),
                                         DefaultSimilarityThreshold)

\* C30: every item the reducer discards has similarity above the threshold
\* with a kept item that precedes it in the input, and the first item of a
\* non-empty input is kept.
C30_NoDiscardWithoutCause ==
  rpc # "input" =>
     /\ Len(embeddings) >= 1 => IsKept(1)
     /\ \A i \in 1..Len(embeddings) :
           ~IsKept(i) => \E j \in 1..(i - 1) : IsKept(j) /\ NearDup(i, j)

\* the third item is discarded because of the first, not of its kept
\* neighbour
C30_Witness ==
  /\ rpc = "reduced"
  /\ Len(embeddings) = 3
  /\ kept[1] = <<PathAt(1), PathAt(2)>>
  /\ NearDup(3, 1)
  /\ ~NearDup(3, 2)
====
